---- MODULE Spec2Model ----
(***************************************************************************)
(* readAdat (src/readadat.py): the single-pass parser of a SomaLogic ADAT  *)
(* file.  One step of the model is one iteration of the "for row in        *)
(* csv_reader" loop (one action per branch of the loop body), followed by  *)
(* one Finalize step for the code after the loop.  A Python exception ends *)
(* the call: pc = "failed", and no result is returned.                     *)
(*                                                                         *)
(* Python values: a list is a sequence, a dict is a function whose DOMAIN  *)
(* is its set of keys, an optional value is None == << >> or Some(v) ==    *)
(* <<v>>.  List offsets are Python's (0-based); a[i] of the code is        *)
(* a[i + 1] here.  line_count, which the code increments and never reads,  *)
(* is left out.                                                            *)
(***************************************************************************)
EXTENDS Integers, Sequences, FiniteSets, TLC

\* ------------------------------------------------------------------ bounds
\* At most MaxTableRows lines are read after the ^TABLE_BEGIN marker.  The
\* lines before it are unbounded: they are drawn from a finite set and the
\* parse state they lead to is finite.
MaxTableRows == 3
\* The files of the second family have longer tables of fewer kinds of
\* rows: at most MaxOrderRows lines after the marker.
MaxOrderRows == 4

\* ------------------------------------------------------- Python primitives
None == << >>
Some(v) == <<v>>

Min(a, b) == IF a <= b THEN a ELSE b

Range(s) == {s[i] : i \in 1..Len(s)}

\* list.index(x): the 0-based offset of the first x, None where Python
\* raises ValueError.
Index(s, x) ==
    IF x \in Range(s)
    THEN Some((CHOOSE i \in 1..Len(s) : s[i] = x /\ \A j \in 1..(i - 1) : s[j] # x) - 1)
    ELSE None

\* s[n:] and s[:n]
SliceFrom(s, n) == IF n >= Len(s) THEN << >> ELSE SubSeq(s, n + 1, Len(s))
SliceTo(s, n) == SubSeq(s, 1, Min(n, Len(s)))

\* ZipFilter with the test inverted: "if not flag"
ZipFilterInverted(vals, flags) ==
    LET n == Min(Len(vals), Len(flags))
        kept == SelectSeq([i \in 1..n |-> i], LAMBDA i : ~flags[i])
    IN  [j \in 1..Len(kept) |-> vals[kept[j]]]

\* [v for (v, flag) in zip(vals, flags) if flag]
ZipFilter(vals, flags) ==
    LET n == Min(Len(vals), Len(flags))
        kept == SelectSeq([i \in 1..n |-> i], LAMBDA i : flags[i])
    IN  [j \in 1..Len(kept) |-> vals[kept[j]]]

\* Truthy as "is not None": an empty list counts as set
TruthyIfSet(opt) == opt # None

\* the truth value of an optional list: None and [] are false
Truthy(opt) == opt # None /\ opt[1] # << >>

\* ------------------------------------------------------------ the input
sectionTitles == {"^HEADER", "^COL_DATA", "^ROW_DATA", "^TABLE_BEGIN"}

\* The files read: the lines that may follow each other.  Every section
\* may hold a marker line and an empty line.
MarkerLines == {<<"^HEADER">>, <<"^COL_DATA">>, <<"^ROW_DATA">>, <<"^TABLE_BEGIN">>}

\* before the first marker
LeadingLines ==
    MarkerLines \cup {<<"!Checksum", "c1">>, <<"Title", "v1">>, << >>}

\* after ^HEADER
HeaderLines ==
    MarkerLines \cup {<<"Title", "v1">>, <<"Title", "v2">>, <<"Title">>, << >>}

\* after ^ROW_DATA or ^COL_DATA
SchemaLines ==
    MarkerLines \cup
    { <<"!Name", "SampleId", "SampleType", "RowCheck">>,
      <<"!Name", "SampleId", "RowCheck", "SampleType">>,
      <<"!Name", "SampleId", "RowCheck">>,
      <<"!Name", "SampleId", "SampleType">>,
      <<"!Type", "String", "String", "String">>,
      <<"!Checksum", "c1">>,
      <<"Title", "v1">>,
      << >> }

\* after ^TABLE_BEGIN: column-annotation rows and sample rows of two
\* proteins, a ColCheck row without values, a row with a readout missing,
\* a row that repeats the field names, a sample row whose first field is a
\* section marker, and a line too short to be a table row
TableLines ==
    { <<"", "", "", "SeqId", "A", "B">>,
      <<"", "", "", "ColCheck", "PASS", "FAIL">>,
      <<"", "", "", "ColCheck", "PASS", "PASS">>,
      <<"", "", "", "ColCheck">>,
      <<"", "", "", "Target", "X", "Y">>,
      <<"S1", "Sample", "PASS", "", "1.5", "2.5">>,
      <<"S2", "Buffer", "PASS", "", "1.50", "abc">>,
      <<"S3", "Sample", "FAIL", "", "2.5">>,
      <<"SampleId", "SampleType", "RowCheck", "", "1.5", "2.5">>,
      <<"^ROW_DATA", "Sample", "PASS", "", "2.5", "1.5">>,
      <<"^HEADER">> }

\* after ^TABLE_BEGIN in the files of the second family: the rows whose
\* order decides which mask filters what
OrderLines ==
    { <<"", "", "", "SeqId", "A", "B">>,
      <<"", "", "", "ColCheck", "PASS", "FAIL">>,
      <<"", "", "", "ColCheck", "PASS", "PASS">>,
      <<"S1", "Sample", "PASS", "", "1.5", "2.5">> }

Lines == LeadingLines \cup HeaderLines \cup SchemaLines \cup TableLines \cup OrderLines

\* ------------------------------------------------------------ the state
VARIABLES
    family,                  \* the file read: "wide" (TableLines) or "deep"
                             \* (OrderLines)
    keepOnlyPasses,          \* argument
    keepOnlySamples,         \* argument
    pc,                      \* "reading" (in the loop), "returned", "failed"
    error,                   \* the exception that ended the call and the
                             \* source line that raised it
    row,                     \* the loop variable: the line just read
    adatVals,                \* the result dict
    curSection,
    sample_type_field_i,
    row_check_field_i,
    sampleAndIntensityData,
    sequenceData,
    sequenceDataIndex,
    colPassFlag,
    tableRows,               \* history: the lines read in the table section
    nameRowRead              \* history: a "!Name" line was read in ^ROW_DATA

vars == <<family, keepOnlyPasses, keepOnlySamples, pc, error, row, adatVals, curSection,
          sample_type_field_i, row_check_field_i, sampleAndIntensityData,
          sequenceData, sequenceDataIndex, colPassFlag,
          tableRows, nameRowRead>>

\* fixed during the call
flags == <<family, keepOnlyPasses, keepOnlySamples>>
accumulators == <<sampleAndIntensityData, sequenceData, sequenceDataIndex, colPassFlag>>
offsets == <<sample_type_field_i, row_check_field_i>>

InTable == curSection = Some("^TABLE_BEGIN")
HasSchema == "SampleAnnotNames" \in DOMAIN adatVals

\* the lines that may come next
Offered ==
    CASE curSection = None -> LeadingLines
      [] curSection = Some("^HEADER") -> HeaderLines
      [] curSection \in {Some("^ROW_DATA"), Some("^COL_DATA")} -> SchemaLines
      [] curSection = Some("^TABLE_BEGIN") ->
             IF family = "wide" THEN TableLines ELSE OrderLines

\* the longest table read
TableBound == IF family = "wide" THEN MaxTableRows ELSE MaxOrderRows

Init ==
    /\ family \in {"wide", "deep"}
    /\ keepOnlyPasses \in BOOLEAN
    /\ keepOnlySamples \in BOOLEAN
    /\ pc = "reading"
    /\ error = [type |-> "", line |-> 0]
    /\ row = << >>
    /\ adatVals = [Metadata |-> << >>]
    /\ curSection = None
    /\ sample_type_field_i = None
    /\ row_check_field_i = None
    /\ sampleAndIntensityData = << >>
    /\ sequenceData = << >>
    /\ sequenceDataIndex = << >>
    /\ colPassFlag = None
    /\ tableRows = << >>
    /\ nameRowRead = FALSE

\* The next line of the file is r: the loop variable takes it and the
\* history records it.
Read(r) ==
    /\ pc = "reading"
    /\ r \in Offered
    /\ InTable => Len(tableRows) < TableBound
    /\ row' = r
    /\ tableRows' = IF InTable THEN Append(tableRows, r) ELSE tableRows
    /\ nameRowRead' = (nameRowRead \/ (curSection = Some("^ROW_DATA") /\ r # << >> /\ r[1] = "!Name"))

\* An exception propagates out of readAdat.
Raise(e, line) ==
    /\ pc' = "failed"
    /\ error' = [type |-> e, line |-> line]

Continue ==
    /\ pc' = "reading"
    /\ error' = error

\* ------------------------------------------------- outside the table
\* row[0] of an empty line
EmptyLine(r) ==
    /\ Read(r)
    /\ ~InTable
    /\ r = << >>
    /\ Raise("IndexError", 78)
    /\ UNCHANGED <<flags, adatVals, curSection, offsets, accumulators>>

\* SectionMarker that starts the metadata afresh
SectionMarkerResetting(r) ==
    /\ Read(r)
    /\ ~InTable
    /\ r # << >>
    /\ r[1] \in sectionTitles
    /\ curSection' = Some(r[1])
    /\ adatVals' = [adatVals EXCEPT !.Metadata = << >>]
    /\ Continue
    /\ UNCHANGED <<flags, offsets, accumulators>>

\* SectionMarker without the test of the table section before it
SectionMarkerAnySection(r) ==
    /\ Read(r)
    /\ r # << >>
    /\ r[1] \in sectionTitles
    /\ curSection' = Some(r[1])
    /\ Continue
    /\ UNCHANGED <<flags, adatVals, offsets, accumulators>>

SectionMarker(r) ==
    /\ Read(r)
    /\ ~InTable
    /\ r # << >>
    /\ r[1] \in sectionTitles
    /\ curSection' = Some(r[1])
    /\ Continue
    /\ UNCHANGED <<flags, adatVals, offsets, accumulators>>

\* ChecksumLine without the test "curSection is None"
ChecksumLineAnySection(r) ==
    /\ Read(r)
    /\ ~InTable
    /\ r # << >>
    /\ r[1] \notin sectionTitles
    /\ r[1] = "!Checksum"
    /\ IF Len(r) < 2
       THEN /\ Raise("IndexError", 81)
            /\ UNCHANGED adatVals
       ELSE /\ adatVals' = ("Checksum" :> r[2]) @@ adatVals
            /\ Continue
    /\ UNCHANGED <<flags, curSection, offsets, accumulators>>

ChecksumLine(r) ==
    /\ Read(r)
    /\ ~InTable
    /\ r # << >>
    /\ r[1] \notin sectionTitles
    /\ curSection = None
    /\ r[1] = "!Checksum"
    /\ IF Len(r) < 2
       THEN /\ Raise("IndexError", 81)
            /\ UNCHANGED adatVals
       ELSE /\ adatVals' = ("Checksum" :> r[2]) @@ adatVals
            /\ Continue
    /\ UNCHANGED <<flags, curSection, offsets, accumulators>>

\* no branch of the chain applies: no section yet and not the checksum
UnsectionedLine(r) ==
    /\ Read(r)
    /\ ~InTable
    /\ r # << >>
    /\ r[1] \notin sectionTitles
    /\ curSection = None
    /\ r[1] # "!Checksum"
    /\ Continue
    /\ UNCHANGED <<flags, adatVals, curSection, offsets, accumulators>>

\* HeaderLine that keeps the first value of a key
HeaderLineKeepFirst(r) ==
    /\ Read(r)
    /\ r # << >>
    /\ r[1] \notin sectionTitles
    /\ curSection = Some("^HEADER")
    /\ IF Len(r) < 2
       THEN /\ Raise("IndexError", 83)
            /\ UNCHANGED adatVals
       ELSE /\ adatVals' = [adatVals EXCEPT !.Metadata = @ @@ (r[1] :> r[2])]
            /\ Continue
    /\ UNCHANGED <<flags, curSection, offsets, accumulators>>

HeaderLine(r) ==
    /\ Read(r)
    /\ r # << >>
    /\ r[1] \notin sectionTitles
    /\ curSection = Some("^HEADER")
    /\ IF Len(r) < 2
       THEN /\ Raise("IndexError", 83)
            /\ UNCHANGED adatVals
       ELSE /\ adatVals' = [adatVals EXCEPT !.Metadata = (r[1] :> r[2]) @@ @]
            /\ Continue
    /\ UNCHANGED <<flags, curSection, offsets, accumulators>>

\* IsSchemaRow that lets only the first "!Name" row assign the schema
IsSchemaRowFirstOnly(section, nameOrType) ==
    section = Some("^ROW_DATA") /\ nameOrType = "!Name" /\ ~HasSchema

\* IsSchemaRow without the test of the section
IsSchemaRowAnySection(section, nameOrType) == nameOrType = "!Name"

\* the schema row: a "!Name" line of the ^ROW_DATA section
IsSchemaRow(section, nameOrType) ==
    section = Some("^ROW_DATA") /\ nameOrType = "!Name"

NameOrTypeLine(r) ==
    /\ Read(r)
    /\ r # << >>
    /\ r[1] \notin sectionTitles
    /\ curSection \in {Some("^ROW_DATA"), Some("^COL_DATA")}
    /\ LET nameOrType == r[1]
           popped == Tail(r)
       IN  IF IsSchemaRow(curSection, nameOrType)
           THEN IF Index(popped, "SampleType") = None
                THEN /\ Raise("ValueError", 88)
                     /\ UNCHANGED <<adatVals, offsets>>
                ELSE IF Index(popped, "RowCheck") = None
                THEN /\ Raise("ValueError", 89)
                     /\ sample_type_field_i' = Index(popped, "SampleType")
                     /\ UNCHANGED <<adatVals, row_check_field_i>>
                ELSE /\ sample_type_field_i' = Index(popped, "SampleType")
                     /\ row_check_field_i' = Index(popped, "RowCheck")
                     /\ adatVals' = ("SampleAnnotNames" :> popped) @@ adatVals
                     /\ Continue
           ELSE /\ Continue
                /\ UNCHANGED <<adatVals, offsets>>
    /\ UNCHANGED <<flags, curSection, accumulators>>

\* ---------------------------------------------------- inside the table
\* adatVals['SampleAnnotNames'] of a dict without the key, or
\* row[rowDataLen] of a line that is too short
UnreadableTableRow(r) ==
    /\ Read(r)
    /\ InTable
    /\ \/ ~HasSchema /\ Raise("KeyError", 54)
       \/ HasSchema /\ Len(r) <= Len(adatVals.SampleAnnotNames) /\ Raise("IndexError", 55)
    /\ UNCHANGED <<flags, adatVals, curSection, offsets, accumulators>>

\* ColumnAnnotationRow that computes the mask from the first ColCheck row
\* only
ColumnAnnotationRowFirstMask(r) ==
    /\ Read(r)
    /\ InTable
    /\ HasSchema
    /\ LET rowDataLen == Len(adatVals.SampleAnnotNames) IN
       /\ Len(r) > rowDataLen
       /\ LET curColName == r[rowDataLen + 1]
              curColAnnotSlice == SliceFrom(r, rowDataLen + 1)
          IN  /\ curColName # ""
              /\ sequenceData' = Append(sequenceData, curColAnnotSlice)
              /\ sequenceDataIndex' = Append(sequenceDataIndex, curColName)
              /\ colPassFlag' =
                    IF keepOnlyPasses /\ curColName = "ColCheck" /\ colPassFlag = None
                    THEN Some([i \in 1..Len(curColAnnotSlice) |-> curColAnnotSlice[i] = "PASS"])
                    ELSE colPassFlag
    /\ Continue
    /\ UNCHANGED <<flags, adatVals, curSection, offsets, sampleAndIntensityData>>

ColumnAnnotationRow(r) ==
    /\ Read(r)
    /\ InTable
    /\ HasSchema
    /\ LET rowDataLen == Len(adatVals.SampleAnnotNames) IN
       /\ Len(r) > rowDataLen
       /\ LET curColName == r[rowDataLen + 1]
              curColAnnotSlice == SliceFrom(r, rowDataLen + 1)
          IN  /\ curColName # ""
              /\ sequenceData' = Append(sequenceData, curColAnnotSlice)
              /\ sequenceDataIndex' = Append(sequenceDataIndex, curColName)
              /\ colPassFlag' =
                    IF keepOnlyPasses /\ curColName = "ColCheck"
                    THEN Some([i \in 1..Len(curColAnnotSlice) |-> curColAnnotSlice[i] = "PASS"])
                    ELSE colPassFlag
    /\ Continue
    /\ UNCHANGED <<flags, adatVals, curSection, offsets, sampleAndIntensityData>>

\* SampleTypeKept with the comparison left out
SampleTypeKeptAlways(slice) == TRUE

\* RowCheckKept without the test of keepOnlyPasses
RowCheckKeptAnyFlag(slice) ==
    row_check_field_i # None => slice[row_check_field_i[1] + 1] = "PASS"

\* IsStrayHeader comparing by identity ("is not"): the slice is a new list,
\* never the list of names itself
IsStrayHeaderByIdentity(slice, names) == FALSE

\* the row filters of a sample row: TRUE when the row is kept
SampleTypeKept(slice) ==
    (keepOnlySamples /\ sample_type_field_i # None)
        => slice[sample_type_field_i[1] + 1] = "Sample"

RowCheckKept(slice) ==
    (keepOnlyPasses /\ row_check_field_i # None)
        => slice[row_check_field_i[1] + 1] = "PASS"

IsStrayHeader(slice, names) == slice = names

Readouts(r, rowDataLen) ==
    IF keepOnlyPasses /\ Truthy(colPassFlag)
    THEN ZipFilter(SliceFrom(r, rowDataLen + 1), colPassFlag[1])
    ELSE SliceFrom(r, rowDataLen + 1)

SampleAnnotationRow(r) ==
    /\ Read(r)
    /\ InTable
    /\ HasSchema
    /\ LET rowDataLen == Len(adatVals.SampleAnnotNames) IN
       /\ Len(r) > rowDataLen
       /\ r[rowDataLen + 1] = ""
       /\ LET curSampleAnnotSlice == SliceTo(r, rowDataLen) IN
          IF IsStrayHeader(curSampleAnnotSlice, adatVals.SampleAnnotNames)
          THEN UNCHANGED sampleAndIntensityData
          ELSE IF ~SampleTypeKept(curSampleAnnotSlice)
          THEN UNCHANGED sampleAndIntensityData      \* continue
          ELSE IF ~RowCheckKept(curSampleAnnotSlice)
          THEN UNCHANGED sampleAndIntensityData      \* continue
          ELSE sampleAndIntensityData' =
                   Append(sampleAndIntensityData,
                          curSampleAnnotSlice \o Readouts(r, rowDataLen))
    /\ Continue
    /\ UNCHANGED <<flags, adatVals, curSection, offsets, sequenceData,
                   sequenceDataIndex, colPassFlag>>

\* ------------------------------------------------------- after the loop
\* A missing cell of a DataFrame built from rows of unequal length.
NA == "<NA>"

\* float64 of a text cell; a missing cell becomes NaN.
IsNumeric(text) == text \in {"1.5", "1.50", "2.5"}
Float64(text) ==
    CASE text = NA -> "nan"
      [] text = "1.50" -> "1.5"
      [] OTHER -> text

\* pd.DataFrame(data): as wide as the longest row, the shorter rows padded.
FrameWidth(data) ==
    IF data = << >> THEN 0
    ELSE CHOOSE w \in {Len(data[i]) : i \in 1..Len(data)} :
             \A i \in 1..Len(data) : Len(data[i]) <= w

FrameValues(data) ==
    [i \in 1..Len(data) |->
        [j \in 1..FrameWidth(data) |-> IF j <= Len(data[i]) THEN data[i][j] ELSE NA]]

\* FilteredSequenceData without the filtering after the loop
UnfilteredSequenceData == sequenceData

\* FilteredSequenceData as a filter applied while reading: the rows read
\* before the first ColCheck row are not repaired
FilteredFromColCheckOn ==
    IF keepOnlyPasses /\ Truthy(colPassFlag)
    THEN [i \in 1..Len(sequenceData) |->
            IF \E j \in 1..i : sequenceDataIndex[j] = "ColCheck"
            THEN ZipFilter(sequenceData[i], colPassFlag[1])
            ELSE sequenceData[i]]
    ELSE sequenceData

\* the column-annotation rows as the DataFrame is built from them
FilteredSequenceData ==
    IF keepOnlyPasses /\ Truthy(colPassFlag)
    THEN [i \in 1..Len(sequenceData) |-> ZipFilter(sequenceData[i], colPassFlag[1])]
    ELSE sequenceData

\* ["SeqId." + v for v in sequenceData.loc['SeqId']]: None where it raises.
\* With one "SeqId" row .loc gives its values (a padded cell is not a
\* string); with several it gives a frame, whose iteration yields the
\* integer column labels.
SeqIdRows == {i \in 1..Len(sequenceDataIndex) : sequenceDataIndex[i] = "SeqId"}

\* SeqIds without the "SeqId." prefix
SeqIdsUnprefixed(values, width) ==
    IF Cardinality(SeqIdRows) = 1
    THEN LET v == values[CHOOSE i \in SeqIdRows : TRUE]
         IN  IF NA \in Range(v) THEN None ELSE Some(v)
    ELSE IF width = 0 THEN Some(<< >>) ELSE None

SeqIds(values, width) ==
    IF Cardinality(SeqIdRows) = 1
    THEN LET v == values[CHOOSE i \in SeqIdRows : TRUE]
         IN  IF NA \in Range(v) THEN None
             ELSE Some([j \in 1..Len(v) |-> "SeqId." \o v[j]])
    ELSE IF width = 0 THEN Some(<< >>) ELSE None

\* astype(resetTypes): the columns named by a protein identifier
ConvertedColumns(df_cols, seqIds) == {j \in 1..Len(df_cols) : df_cols[j] \in Range(seqIds)}

AsType(values, cols) ==
    [i \in 1..Len(values) |->
        [j \in 1..Len(values[i]) |->
            IF j \in cols THEN Float64(values[i][j]) ELSE values[i][j]]]

\* DfCols with the operands exchanged
DfColsSwapped(sampleAnnotNames, seqIds) == seqIds \o sampleAnnotNames

\* sampleAnnotNames + seqIds
DfCols(sampleAnnotNames, seqIds) == sampleAnnotNames \o seqIds

\* ConversionFails of astype(resetTypes, errors='ignore')
ConversionNeverFails(values, cols) == FALSE

\* a cell of a converted column that float() rejects
ConversionFails(values, cols) ==
    \E i \in 1..Len(values) : \E j \in cols :
        values[i][j] # NA /\ ~IsNumeric(values[i][j])

Finalize ==
    /\ pc = "reading"
    /\ LET seqValues == FrameValues(FilteredSequenceData)
           seqWidth == FrameWidth(FilteredSequenceData)
           named == ("SequenceAnnotNames" :> sequenceDataIndex) @@ adatVals
       IN
       IF ~HasSchema
       THEN /\ Raise("KeyError", 101)
            /\ adatVals' = named
       ELSE IF SeqIdRows = {}
       THEN /\ Raise("KeyError", 102)
            /\ adatVals' = named
       ELSE IF SeqIds(seqValues, seqWidth) = None
       THEN /\ Raise("TypeError", 102)
            /\ adatVals' = named
       ELSE
       LET seqIds == SeqIds(seqValues, seqWidth)[1]
           df_cols == DfCols(adatVals.SampleAnnotNames, seqIds)
           sampleValues == FrameValues(sampleAndIntensityData)
           cols == ConvertedColumns(df_cols, seqIds)
       IN
       IF Len(seqIds) # seqWidth
       THEN /\ Raise("ValueError", 103)
            /\ adatVals' = named
       ELSE IF /\ sampleAndIntensityData # << >>
               /\ FrameWidth(sampleAndIntensityData) # Len(df_cols)
       THEN /\ Raise("ValueError", 105)
            /\ adatVals' = named
       ELSE IF ConversionFails(sampleValues, cols)
       THEN /\ Raise("ValueError", 110)
            /\ adatVals' = named
       ELSE /\ pc' = "returned"
            /\ error' = error
            /\ adatVals' =
                 [SequenceData |->
                     [index |-> sequenceDataIndex, columns |-> seqIds, values |-> seqValues],
                  SampleAndIntensityData |->
                     [columns |-> df_cols, values |-> AsType(sampleValues, cols)]]
                 @@ named
    \* lines 95-96 replace the rows of sequenceData by the filtered ones
    /\ sequenceData' = FilteredSequenceData
    /\ UNCHANGED <<flags, row, curSection, offsets, sampleAndIntensityData,
                   sequenceDataIndex, colPassFlag, tableRows, nameRowRead>>

ReadLine(r) ==
    \/ EmptyLine(r)
    \/ SectionMarker(r)
    \/ ChecksumLine(r)
    \/ UnsectionedLine(r)
    \/ HeaderLine(r)
    \/ NameOrTypeLine(r)
    \/ UnreadableTableRow(r)
    \/ ColumnAnnotationRow(r)
    \/ SampleAnnotationRow(r)

Next ==
    \/ \E r \in Lines : ReadLine(r)
    \/ Finalize

Spec == Init /\ [][Next]_vars
\* ===================================================================
\* The properties of readAdat.  A successful parse is pc = "returned";
\* the file's table section is the history tableRows, read with the
\* field names the parse ended with.
\* ===================================================================
Returned == pc = "returned"
Names == adatVals.SampleAnnotNames
NumFields == Len(Names)
SeqTable == adatVals.SequenceData
SampleTable == adatVals.SampleAndIntensityData
ReadoutColumns == Len(SampleTable.columns) - NumFields

\* the rows of the table section by kind, as positions in tableRows
Readable(r) == Len(r) > NumFields
SampleRows == {i \in 1..Len(tableRows) : Readable(tableRows[i]) /\ tableRows[i][NumFields + 1] = ""}
AnnotRows(label) ==
    {i \in 1..Len(tableRows) : Readable(tableRows[i]) /\ tableRows[i][NumFields + 1] = label}
ValuesOf(r) == IF Len(r) <= NumFields + 1 THEN << >> ELSE SubSeq(r, NumFields + 2, Len(r))

\* the value a sample row holds for a field of the schema
FieldValue(r, name) ==
    r[CHOOSE k \in 1..NumFields : Names[k] = name /\ \A j \in 1..(k - 1) : Names[j] # name]
RepeatsFieldNames(r) == \A k \in 1..NumFields : r[k] = Names[k]
PassesFilters(r) ==
    /\ keepOnlySamples => FieldValue(r, "SampleType") = "Sample"
    /\ keepOnlyPasses => FieldValue(r, "RowCheck") = "PASS"
DataRows == {i \in SampleRows : ~RepeatsFieldNames(tableRows[i])}
KeptRows == {i \in DataRows : PassesFilters(tableRows[i])}

\* the ColCheck row in force at the end of the pass, and what it keeps
Last(S) == CHOOSE i \in S : \A j \in S : j <= i
LastColCheck == ValuesOf(tableRows[Last(AnnotRows("ColCheck"))])
MaskInForce == keepOnlyPasses /\ AnnotRows("ColCheck") # {} /\ LastColCheck # << >>
PassCount(checks) == Cardinality({i \in 1..Len(checks) : checks[i] = "PASS"})
RECURSIVE KeepWherePass(_, _)
KeepWherePass(vals, checks) ==
    IF vals = << >> \/ checks = << >> THEN << >>
    ELSE (IF Head(checks) = "PASS" THEN <<Head(vals)>> ELSE << >>)
             \o KeepWherePass(Tail(vals), Tail(checks))
PostFilter(vals) == IF MaskInForce THEN KeepWherePass(vals, LastColCheck) ELSE vals
Prefixed(vals) == [j \in 1..Len(vals) |-> "SeqId." \o vals[j]]
\* the proteins of the file: the values of its SeqId row
ProteinCount == Len(ValuesOf(tableRows[Last(AnnotRows("SeqId"))]))

\* C1: in every result, the columns of SampleAndIntensityData after the
\* sample-annotation fields are the columns of SequenceData, in the same
\* order, and both are "SeqId." + v for the values v of the filtered SeqId
\* row.
C1_SameProteinColumns ==
    Returned =>
        /\ SubSeq(SampleTable.columns, NumFields + 1, Len(SampleTable.columns))
              = SeqTable.columns
        /\ SubSeq(SampleTable.columns, 1, NumFields) = Names
        /\ \A i \in 1..Len(SeqTable.index) :
              SeqTable.index[i] = "SeqId" => SeqTable.columns = Prefixed(SeqTable.values[i])
        /\ \A i \in AnnotRows("SeqId") :
              SeqTable.columns = Prefixed(PostFilter(ValuesOf(tableRows[i])))

\* a result with a column filtered out and a sample row in it
C1_Witness ==
    /\ Returned
    /\ MaskInForce
    /\ Len(SeqTable.columns) = 1
    /\ Len(SampleTable.values) >= 1

\* C2: in every result, the rows of SampleAndIntensityData are no more
\* than the sample rows of the table section, and exactly as many as those
\* that do not repeat the field names and pass the enabled filters.
C2_RowCount ==
    Returned =>
        /\ Len(SampleTable.values) <= Cardinality(SampleRows)
        /\ Len(SampleTable.values) = Cardinality(KeptRows)

\* a result that keeps a sample row and drops another one by a filter
C2_Witness ==
    /\ Returned
    /\ KeptRows # {}
    /\ DataRows \ KeptRows # {}

\* C3 as stated: with keepOnlyPasses the readout columns are as many as
\* the PASS values of the ColCheck row (none when the file has no such
\* row), without it as many as the proteins; the mask is the ColCheck row
\* compared with "PASS".
C3_ColumnCountAsStated ==
    /\ Returned =>
          ReadoutColumns =
              IF keepOnlyPasses
              THEN (IF AnnotRows("ColCheck") = {} THEN 0 ELSE PassCount(LastColCheck))
              ELSE ProteinCount
    /\ (HasSchema /\ colPassFlag # None) =>
          /\ AnnotRows("ColCheck") # {}
          /\ colPassFlag[1] = [i \in 1..Len(LastColCheck) |-> LastColCheck[i] = "PASS"]

\* C3 (amended): the readout columns are as many as the PASS values of the
\* last ColCheck row when keepOnlyPasses is enabled and that row has at
\* least one value; they are as many as the proteins when keepOnlyPasses is
\* disabled, when no ColCheck row was read, or when the last one is empty.
\* Whenever the mask is set, it is the last ColCheck row compared with
\* "PASS", position by position.
C3_ColumnCount ==
    /\ Returned =>
          ReadoutColumns = IF MaskInForce THEN PassCount(LastColCheck) ELSE ProteinCount
    /\ (HasSchema /\ colPassFlag # None) =>
          /\ keepOnlyPasses
          /\ AnnotRows("ColCheck") # {}
          /\ colPassFlag[1] = [i \in 1..Len(LastColCheck) |-> LastColCheck[i] = "PASS"]
    /\ (HasSchema /\ keepOnlyPasses /\ AnnotRows("ColCheck") # {}) => colPassFlag # None

\* a result of a file whose ColCheck row fails one of two proteins
C3_Witness ==
    /\ Returned
    /\ MaskInForce
    /\ ProteinCount = 2
    /\ ReadoutColumns = 1

\* C4: with both flags disabled, a result has one row per sample row that
\* does not repeat the field names and one readout column per protein.
C4_NoFiltering ==
    (Returned /\ ~keepOnlyPasses /\ ~keepOnlySamples) =>
        /\ Len(SampleTable.values) = Cardinality(DataRows)
        /\ ReadoutColumns = ProteinCount

\* such a result, of a file with a failing ColCheck value and a sample row
\* that is neither a "Sample" nor a "PASS"
C4_Witness ==
    /\ Returned /\ ~keepOnlyPasses /\ ~keepOnlySamples
    /\ \E i \in AnnotRows("ColCheck") : "FAIL" \in Range(ValuesOf(tableRows[i]))
    /\ \E i \in DataRows :
          /\ FieldValue(tableRows[i], "SampleType") # "Sample"
          /\ FieldValue(tableRows[i], "RowCheck") # "PASS"
    /\ ReadoutColumns = 2

\* C5 as stated: a "!Name" row of ^ROW_DATA without "SampleType" or
\* without "RowCheck" does not make the parse fail.
C5_MissingFieldIsNoError ==
    (/\ curSection = Some("^ROW_DATA")
     /\ row # << >>
     /\ row[1] = "!Name"
     /\ ~({"SampleType", "RowCheck"} \subseteq Range(Tail(row))))
        => ~(pc = "failed" /\ error.type = "ValueError" /\ error.line \in {88, 89})

\* C6: a sample row whose annotation values are the field names is never
\* appended to the accumulator and is in no result.
C6_StrayHeaderExcluded ==
    /\ HasSchema =>
          \A i \in 1..Len(sampleAndIntensityData) :
              SubSeq(sampleAndIntensityData[i], 1, NumFields) # Names
    /\ Returned =>
          \A i \in 1..Len(SampleTable.values) :
              SubSeq(SampleTable.values[i], 1, NumFields) # Names

\* a result of a file with such a row and with a sample row that is kept
C6_Witness ==
    /\ Returned
    /\ \E i \in SampleRows : RepeatsFieldNames(tableRows[i])
    /\ SampleTable.values # << >>

\* C7: when the table section is entered and no "!Name" row was read in a
\* ^ROW_DATA section, no result is returned: the first table row fails,
\* and so does the end of the input.
C7_NoSchemaFails ==
    (InTable /\ ~nameRowRead) =>
        /\ ~Returned
        /\ tableRows # << >> => pc = "failed"
        /\ pc = "failed" => error.type = "KeyError"

\* the end of the input right after ^TABLE_BEGIN, the schema missing
C7_Witness ==
    /\ InTable /\ ~nameRowRead
    /\ tableRows = << >>
    /\ pc = "failed"

\* C8: without a "SeqId" column-annotation row no result is returned, and
\* the code after the loop (past line 92) fails at the lookup of that row;
\* in a result the protein identifiers are "SeqId." + v for the
\* values v of the filtered SeqId row, in order.
C8_SeqIdRow ==
    /\ (pc = "failed" /\ error.line > 92 /\ HasSchema /\ AnnotRows("SeqId") = {})
          => error = [type |-> "KeyError", line |-> 102]
    /\ Returned =>
          /\ AnnotRows("SeqId") # {}
          /\ \A i \in AnnotRows("SeqId") :
                /\ SeqTable.columns = Prefixed(PostFilter(ValuesOf(tableRows[i])))
                /\ adatVals.SequenceAnnotNames[Cardinality({j \in 1..i :
                       Readable(tableRows[j]) /\ tableRows[j][NumFields + 1] # ""})] = "SeqId"

\* a result with the identifiers of a SeqId row read before the ColCheck
\* row that filters it
C8_Witness ==
    /\ Returned
    /\ MaskInForce
    /\ \E i \in AnnotRows("SeqId") : i < Last(AnnotRows("ColCheck"))
    /\ SeqTable.columns = <<"SeqId.A">>

\* C9: the call fails on a cell that is not numeric text exactly when the
\* cell is in a kept protein column of a kept sample row; the readouts of a
\* result are the floats of their text, and NaN only where the row had no
\* cell.
C9_NonNumericFails ==
    /\ Returned =>
          \A i \in 1..Len(SampleTable.values) :
              \A j \in (NumFields + 1)..Len(SampleTable.columns) :
                  IF j <= Len(sampleAndIntensityData[i])
                  THEN /\ sampleAndIntensityData[i][j] \in {"1.5", "1.50", "2.5"}
                       /\ SampleTable.values[i][j] \in {"1.5", "2.5"}
                  ELSE SampleTable.values[i][j] = "nan"
    /\ (pc = "failed" /\ error.line = 110) =>
          \E i \in 1..Len(sampleAndIntensityData) :
              \E j \in (NumFields + 1)..Len(sampleAndIntensityData[i]) :
                  sampleAndIntensityData[i][j] \notin {"1.5", "1.50", "2.5"}

\* a result that keeps a sample row whose cell "abc" was in a column the
\* mask removed
C9_Witness ==
    /\ Returned
    /\ \E i \in KeptRows : "abc" \in Range(ValuesOf(tableRows[i]))
    /\ SampleTable.values # << >>

\* The minimal file of C10: one header pair, the schema SampleId,
\* SampleType, RowCheck, both filters enabled.
MinimalHead ==
    /\ keepOnlyPasses /\ keepOnlySamples
    /\ adatVals.Metadata = [Title |-> "v1"]
    /\ "Checksum" \notin DOMAIN adatVals
    /\ HasSchema
    /\ Names = <<"SampleId", "SampleType", "RowCheck">>
MinimalColCheck == <<"", "", "", "ColCheck", "PASS", "FAIL">>
MinimalSeqId == <<"", "", "", "SeqId", "A", "B">>
MinimalSample == <<"S1", "Sample", "PASS", "", "1.5", "2.5">>

\* C10 as stated: the file with the ColCheck row and the sample row alone
\* yields a result with one protein column and the readout 1.5.
C10_MinimalFileAsStated ==
    (MinimalHead /\ tableRows = <<MinimalColCheck, MinimalSample>> /\ pc # "reading") =>
        /\ Returned
        /\ Len(SeqTable.columns) = 1
        /\ ReadoutColumns = 1
        /\ SampleTable.values = << <<"S1", "Sample", "PASS", "1.5">> >>

\* C10 (amended): the file with a SeqId row (A, B) next to its ColCheck
\* row yields a result with the protein column SeqId.A alone and one sample
\* row with the readout 1.5.
C10_MinimalFile ==
    (/\ MinimalHead
     /\ tableRows \in {<<MinimalColCheck, MinimalSeqId, MinimalSample>>,
                       <<MinimalSeqId, MinimalColCheck, MinimalSample>>}
     /\ pc # "reading") =>
        /\ Returned
        /\ SeqTable.columns = <<"SeqId.A">>
        /\ ReadoutColumns = 1
        /\ SampleTable.values = << <<"S1", "Sample", "PASS", "1.5">> >>

C10_Witness ==
    /\ MinimalHead
    /\ tableRows = <<MinimalColCheck, MinimalSeqId, MinimalSample>>
    /\ Returned
    /\ SampleTable.values[1][4] = "1.5"
\* ---------------------------------------------------------------------
\* Steps.  A step of the loop reads the line row'; the step after the loop
\* returns or fails past line 92.
ReadStep == pc = "reading" /\ (pc' = "reading" \/ (pc' = "failed" /\ error'.line <= 92))
FinalizeStep == pc = "reading" /\ (pc' = "returned" \/ (pc' = "failed" /\ error'.line > 92))
ChecksumOf == IF "Checksum" \in DOMAIN adatVals THEN Some(adatVals.Checksum) ELSE None
SchemaOf == IF HasSchema THEN Some(Names) ELSE None
\* the sample row that a step appends: the annotations and these readouts
Appends(readouts) ==
    sampleAndIntensityData' =
        Append(sampleAndIntensityData, SubSeq(row', 1, NumFields) \o readouts)
RowsKept == \A i \in 1..Len(sampleAndIntensityData) :
                /\ i <= Len(sampleAndIntensityData')
                /\ sampleAndIntensityData'[i] = sampleAndIntensityData[i]

\* C12 as stated: with keepOnlyPasses a sample row is appended with its
\* readouts reduced to the mask-true positions exactly when a ColCheck row
\* was read before it, whatever that row holds; rows already appended never
\* change.
C12_FilterIffColCheckReadAsStated ==
    [][/\ RowsKept
       /\ (ReadStep /\ sampleAndIntensityData' # sampleAndIntensityData) =>
             Appends(IF keepOnlyPasses /\ AnnotRows("ColCheck") # {}
                     THEN KeepWherePass(ValuesOf(row'), LastColCheck)
                     ELSE ValuesOf(row'))]_vars

\* C12 (amended): with keepOnlyPasses a sample row is appended with its
\* readouts reduced to the PASS positions of the last ColCheck row read
\* before it exactly when there is such a row and it has at least one
\* value; otherwise (no ColCheck row yet, or an empty one) it is appended
\* with all its readouts.  Rows already appended never change, neither by
\* a later ColCheck row nor after the loop.
C12_FilterIffMaskKnown ==
    [][/\ RowsKept
       /\ (ReadStep /\ sampleAndIntensityData' # sampleAndIntensityData) =>
             Appends(IF MaskInForce
                     THEN KeepWherePass(ValuesOf(row'), LastColCheck)
                     ELSE ValuesOf(row'))]_vars

\* a sample row kept whole before the ColCheck row, one reduced after it
C12_Witness ==
    /\ keepOnlyPasses
    /\ HasSchema
    /\ Len(sampleAndIntensityData) = 2
    /\ Len(sampleAndIntensityData[1]) = NumFields + 2
    /\ Len(sampleAndIntensityData[2]) = NumFields + 1
    /\ AnnotRows("ColCheck") # {}

\* C13 as stated: with keepOnlyPasses and a ColCheck row read, the step
\* after the loop filters every column-annotation row to the PASS positions
\* of the last ColCheck row; otherwise the rows are unchanged.
C13_RetroactiveFilterAsStated ==
    [][FinalizeStep =>
          sequenceData' =
              IF HasSchema /\ keepOnlyPasses /\ AnnotRows("ColCheck") # {}
              THEN [i \in 1..Len(sequenceData) |->
                       KeepWherePass(sequenceData[i], LastColCheck)]
              ELSE sequenceData]_vars

\* C13 (amended): with keepOnlyPasses and a last ColCheck row of at least
\* one value, the step after the loop filters every column-annotation row
\* (read before, at or after that row) to its PASS positions, in order, and
\* every row of a returned SequenceData is as wide as the protein
\* identifiers; with keepOnlyPasses disabled, no ColCheck row, or an empty
\* last ColCheck row, the rows are unchanged.
C13_RetroactiveFilter ==
    [][FinalizeStep =>
          /\ sequenceData' =
                IF HasSchema /\ MaskInForce
                THEN [i \in 1..Len(sequenceData) |->
                         KeepWherePass(sequenceData[i], LastColCheck)]
                ELSE sequenceData
          /\ Returned' =>
                \A i \in 1..Len(SeqTable'.values) :
                    /\ Len(SeqTable'.values[i]) = Len(SeqTable'.columns)
                    /\ Len(sequenceData'[i]) <= Len(SeqTable'.columns)]_vars

\* a result with a filtered row read before the ColCheck row and one read
\* after it
C13_Witness ==
    /\ Returned
    /\ MaskInForce
    /\ \E i \in AnnotRows("Target") : i < Last(AnnotRows("ColCheck"))
    /\ \E i \in AnnotRows("SeqId") : i > Last(AnnotRows("ColCheck"))
    /\ \A i \in 1..Len(sequenceData) : Len(sequenceData[i]) = 1

\* what a marker line does: the section, and nothing else
MarkerEffect ==
    /\ curSection' = Some(row'[1])
    /\ pc' = "reading"
    /\ adatVals' = adatVals
    /\ offsets' = offsets
    /\ accumulators' = accumulators

\* C14 as stated: in whatever section, a line whose first field is a
\* section marker sets the section and changes nothing else.
C14_MarkerLineAsStated ==
    [][(ReadStep /\ row' # << >> /\ row'[1] \in sectionTitles) => MarkerEffect]_vars

\* C14 (amended): in every section but ^TABLE_BEGIN, a line whose first
\* field is a section marker sets the section and changes nothing else; in
\* ^TABLE_BEGIN it is a table row and the section stays.
C14_MarkerLine ==
    [][(ReadStep /\ row' # << >> /\ row'[1] \in sectionTitles) =>
          IF InTable THEN InTable' ELSE MarkerEffect]_vars

\* a marker line read after the schema: the section moved, the schema
\* and the metadata stayed
C14_Witness ==
    /\ row = <<"^COL_DATA">>
    /\ curSection = Some("^COL_DATA")
    /\ HasSchema
    /\ adatVals.Metadata # << >>

\* C15: the Checksum is set only by a "!Checksum" line read before any
\* section marker, to the second field of that line; no other step sets or
\* changes it.
C15_ChecksumOnlyBeforeSections ==
    [][/\ ChecksumOf' # ChecksumOf =>
             (ReadStep /\ curSection = None /\ row' # << >> /\ row'[1] = "!Checksum")
       /\ (ReadStep /\ curSection = None /\ Len(row') >= 2 /\ row'[1] = "!Checksum") =>
             ChecksumOf' = Some(row'[2])]_vars

\* a "!Checksum" line read after a marker, and no Checksum
C15_Witness ==
    /\ row = <<"!Checksum", "c1">>
    /\ curSection # None
    /\ pc = "reading"
    /\ ChecksumOf = None
\* C16: Metadata changes only by a line read in ^HEADER whose first field
\* is no marker, and such a line (of two fields or more) stores its second
\* field under its first, over any value stored before; every other step
\* leaves Metadata as it is.
C16_MetadataOnlyInHeader ==
    [][/\ adatVals'.Metadata # adatVals.Metadata =>
             /\ ReadStep
             /\ curSection = Some("^HEADER")
             /\ row' # << >>
             /\ row'[1] \notin sectionTitles
       /\ (/\ ReadStep
           /\ curSection = Some("^HEADER")
           /\ Len(row') >= 2
           /\ row'[1] \notin sectionTitles) =>
             /\ DOMAIN adatVals'.Metadata = DOMAIN adatVals.Metadata \cup {row'[1]}
             /\ \A k \in DOMAIN adatVals'.Metadata :
                   adatVals'.Metadata[k] =
                       IF k = row'[1] THEN row'[2] ELSE adatVals.Metadata[k]]_vars

\* a result whose Title is the one of the later of the two header lines
C16_Witness ==
    /\ Returned
    /\ DOMAIN adatVals.Metadata = {"Title"}
    /\ adatVals.Metadata["Title"] = "v2"

\* the offset list.index gives: the first position, counted from zero
OffsetOf(names, x) ==
    Some((CHOOSE k \in 1..Len(names) :
              names[k] = x /\ \A j \in 1..(k - 1) : names[j] # x) - 1)
IsNameRow(r) == r # << >> /\ r[1] = "!Name"

\* C17 as stated: once assigned, the schema and the two offsets are never
\* assigned again.
C17_SchemaAssignedOnceAsStated ==
    [][HasSchema => (Names' = Names /\ offsets' = offsets)]_vars

\* C17 (amended): the schema and the two offsets change only by a "!Name"
\* row read in ^ROW_DATA; every such row that is accepted sets the schema to
\* its fields after the first and the offsets to the first positions of
\* SampleType and RowCheck in them, a second such row included (the last
\* one wins); in ^TABLE_BEGIN they never change.
C17_SchemaSetByEveryNameRow ==
    [][/\ (SchemaOf' # SchemaOf \/ offsets' # offsets) =>
             (ReadStep /\ curSection = Some("^ROW_DATA") /\ IsNameRow(row'))
       /\ (ReadStep /\ curSection = Some("^ROW_DATA") /\ IsNameRow(row') /\ pc' = "reading") =>
             /\ SchemaOf' = Some(Tail(row'))
             /\ sample_type_field_i' = OffsetOf(Tail(row'), "SampleType")
             /\ row_check_field_i' = OffsetOf(Tail(row'), "RowCheck")]_vars

\* a second "!Name" row, without RowCheck, has moved the SampleType offset
\* away from the schema of the first before the parse failed
C17_Witness ==
    /\ HasSchema
    /\ pc = "failed"
    /\ error = [type |-> "ValueError", line |-> 89]
    /\ sample_type_field_i # OffsetOf(Names, "SampleType")

MaskOf(checks) == Some([i \in 1..Len(checks) |-> checks[i] = "PASS"])
IsColCheckRow(r) == HasSchema /\ Readable(r) /\ r[NumFields + 1] = "ColCheck"

\* C18 as stated: once set, the mask is never changed.
C18_MaskSetOnceAsStated ==
    [][colPassFlag # None => colPassFlag' = colPassFlag]_vars

\* C18 (amended): the mask changes only by a ColCheck row read in the table
\* with keepOnlyPasses, and every such row, a second one included, sets it
\* to the comparison of its own values with "PASS" (the last one wins).
C18_MaskSetByEveryColCheckRow ==
    [][/\ colPassFlag' # colPassFlag =>
             (ReadStep /\ keepOnlyPasses /\ InTable /\ IsColCheckRow(row'))
       /\ (ReadStep /\ keepOnlyPasses /\ InTable /\ IsColCheckRow(row')) =>
             colPassFlag' = MaskOf(ValuesOf(row'))
       /\ ~keepOnlyPasses => colPassFlag' = None]_vars

\* a sample row reduced by the first ColCheck row, and a mask that is the
\* one of a different, later ColCheck row
C18_Witness ==
    /\ HasSchema
    /\ Cardinality(AnnotRows("ColCheck")) >= 2
    /\ colPassFlag = MaskOf(LastColCheck)
    /\ colPassFlag = Some(<<TRUE, TRUE>>)
    /\ sampleAndIntensityData # << >>
    /\ Len(sampleAndIntensityData[1]) = NumFields + 1

\* what reading a line as a table row does
TableRowEffect ==
    IF ~HasSchema THEN pc' = "failed" /\ error' = [type |-> "KeyError", line |-> 54]
    ELSE IF ~Readable(row') THEN pc' = "failed" /\ error' = [type |-> "IndexError", line |-> 55]
    ELSE /\ pc' = "reading"
         /\ IF row'[NumFields + 1] # ""
            THEN /\ sequenceDataIndex' = Append(sequenceDataIndex, row'[NumFields + 1])
                 /\ sequenceData' = Append(sequenceData, ValuesOf(row'))
                 /\ sampleAndIntensityData' = sampleAndIntensityData
            ELSE /\ sequenceDataIndex' = sequenceDataIndex
                 /\ sequenceData' = sequenceData
                 /\ \/ sampleAndIntensityData' = sampleAndIntensityData
                    \/ /\ Len(sampleAndIntensityData') = Len(sampleAndIntensityData) + 1
                       /\ SubSeq(sampleAndIntensityData'[Len(sampleAndIntensityData')],
                                 1, NumFields) = SubSeq(row', 1, NumFields)

\* C19: from ^TABLE_BEGIN on the section stays ^TABLE_BEGIN; every line
\* read, one that begins with a marker or "!Checksum" included, is handled
\* as a table row; the schema, the offsets, the Checksum and the Metadata
\* never change.
C19_TableSectionIsFinal ==
    [][InTable =>
          /\ InTable'
          /\ SchemaOf' = SchemaOf
          /\ offsets' = offsets
          /\ ChecksumOf' = ChecksumOf
          /\ adatVals'.Metadata = adatVals.Metadata
          /\ ReadStep => (tableRows' = Append(tableRows, row') /\ TableRowEffect)]_vars

\* a line that begins with a marker, kept as a sample row of the table
C19_Witness ==
    /\ InTable
    /\ pc = "reading"
    /\ row # << >>
    /\ row[1] \in sectionTitles
    /\ sampleAndIntensityData # << >>
    /\ sampleAndIntensityData[Len(sampleAndIntensityData)][1] = row[1]

\* every table row carries one value per protein
AllRowsFull ==
    \A i \in 1..Len(tableRows) :
        Readable(tableRows[i]) /\ Len(tableRows[i]) = Len(tableRows[1])
HasNonPass(checks) == \E j \in 1..Len(checks) : checks[j] # "PASS"

\* C20 as stated: with keepOnlyPasses, a kept sample row read before a
\* ColCheck row that has a value other than PASS means that no result is
\* returned.
C20_EarlySampleRowFailsAsStated ==
    (/\ keepOnlyPasses
     /\ HasSchema
     /\ AllRowsFull
     /\ \E i \in KeptRows : \E c \in AnnotRows("ColCheck") :
            i < c /\ HasNonPass(ValuesOf(tableRows[c])))
        => pc # "returned"

\* C20 (amended): with keepOnlyPasses, a kept sample row read before every
\* ColCheck row, and a last ColCheck row that has a value other than PASS,
\* mean that no result is returned: unless the parse fails earlier, building
\* the sample frame fails at line 105.
C20_EarlySampleRowFails ==
    (/\ keepOnlyPasses
     /\ HasSchema
     /\ AllRowsFull
     /\ AnnotRows("ColCheck") # {}
     /\ HasNonPass(LastColCheck)
     /\ \E i \in KeptRows : \A c \in AnnotRows("ColCheck") : i < c)
        => /\ pc # "returned"
           /\ (pc = "failed" /\ error.line > 103) =>
                 error = [type |-> "ValueError", line |-> 105]

\* the frame of a kept sample row read before the ColCheck row is refused
C20_Witness ==
    /\ keepOnlyPasses
    /\ HasSchema
    /\ AllRowsFull
    /\ AnnotRows("ColCheck") # {}
    /\ HasNonPass(LastColCheck)
    /\ \E i \in KeptRows : \A c \in AnnotRows("ColCheck") : i < c
    /\ pc = "failed"
    /\ error = [type |-> "ValueError", line |-> 105]
====
